---- MODULE Spec2Model ----
(***************************************************************************)
(* Building Maintenance Request System (src/main.py, src/database.py).     *)
(*                                                                         *)
(* The state is the SQLite database (tables users and requests), the wall  *)
(* clock, and the request handlers FastAPI runs in its thread pool.  Every *)
(* handler owns a SQLAlchemy session: update_request first SELECTs the row *)
(* into an in-memory object, then assigns its attributes, then commits;    *)
(* the commit UPDATEs the columns whose attribute differs from the value   *)
(* that was loaded.  Handlers of different calls interleave between these  *)
(* steps.  Time is counted in hours.                                       *)
(***************************************************************************)
EXTENDS Integers, Sequences, FiniteSets, TLC

VARIABLES users, requests, clock, hs, answer, seq

vars == <<users, requests, clock, hs, answer, seq>>

(***************************************************************************)
(* Bounds of the model.                                                    *)
(***************************************************************************)
\* rows the requests table may hold
MaxRequests == 2
\* hours the clock may advance after startup
MaxClock == 1
\* UPDATE transactions committed in one behaviour
MaxCommits == 2
\* rows written by the seeding loop (range(12) in the source)
SeedRequests == 1
\* largest random.randint(0, 30) drawn for a seeded row's age in days
SeedDays == 0
\* largest random.randint(1, 48) drawn for a seeded row's resolution hours
SeedHours == 1

\* rows of the tables the views are run on, with every status and urgency
ViewRequests == 2
\* largest age in days drawn for a row of those tables
ViewDays == 1
\* largest resolution time in hours drawn for a Completed row of those tables
ViewHours == 3
\* rows of the tables that hold Completed requests only
AvgRequests == 3
\* rows a long table holds beyond the limit of the dashboard's recent list
ExtraRows == 1

HoursPerDay == 24

\* .limit(10) of the dashboard's recent requests
RecentLimit == 10

Handlers == {1, 2}

(***************************************************************************)
(* Nullable columns and optional values: None is NULL, Some(v) a value.    *)
(***************************************************************************)
None == << >>
Some(v) == <<v>>
Get(o) == o[1]

(***************************************************************************)
(* Table users: the role of each user id.  The seeding block creates the   *)
(* users tenant, worker and manager, in this order, when the table is      *)
(* empty; a database file that already holds users is left as it is, so    *)
(* the table may hold further accounts.  The model runs on a seeded        *)
(* database to which a second worker and a second tenant were added.       *)
(***************************************************************************)
SeededUsers == <<"tenant", "worker", "manager">>

ExistingUsers == SeededUsers \o <<"worker", "tenant">>

UserIds == DOMAIN users

\* get_current_user: the session's user_id, looked up in the users table
get_current_user(sess) ==
    IF sess = None THEN None
    ELSE IF Get(sess) \in UserIds THEN sess ELSE None

\* the guard every role-scoped route starts with:
\*   if not user or user.role != role: return RedirectResponse("/")
\* (variant: the guard without its role test)
RoleAllowsAnyone(user, role) == user # None
\* (variant: the guard lets a worker pass whatever role is asked for)
RoleAllowsStaff(user, role) ==
    user # None /\ users[Get(user)] \in {role, "worker"}
RoleAllows(user, role) == user # None /\ users[Get(user)] = role

Sessions == {None} \cup {Some(u) : u \in UserIds}

(***************************************************************************)
(* Responses.                                                              *)
(***************************************************************************)
NoResponse == [op |-> "none", code |-> 0, location |-> ""]
\* RedirectResponse("/") : status code 307 by default
RedirectRoot(op) == [op |-> op, code |-> 307, location |-> "/"]
\* RedirectResponse(url="/worker/queue", status_code=303)
RedirectQueue == [op |-> "update", code |-> 303, location |-> "/worker/queue"]
\* TemplateResponse("submit_request.html", {... "success": True ...})
SubmitPage == [op |-> "submit", code |-> 200, location |-> "submit_request.html"]
\* FastAPI's answer to a required Form(...) field that is missing or empty
Unprocessable(op) == [op |-> op, code |-> 422, location |-> ""]

(***************************************************************************)
(* Table requests (class Request).  A row is a record; the table is the    *)
(* sequence of its rows in rowid order.                                    *)
(***************************************************************************)
Row(id, tenant, unit, cat, urg, descr, st, created, resolved, worker) ==
    [id |-> id, tenant_id |-> tenant, unit_number |-> unit, category |-> cat,
     urgency |-> urg, description |-> descr, status |-> st,
     created_at |-> created, resolved_at |-> resolved,
     assigned_worker_id |-> worker]

Columns == {"id", "tenant_id", "unit_number", "category", "urgency",
            "description", "status", "created_at", "resolved_at",
            "assigned_worker_id"}

Ids(table) == {table[i].id : i \in DOMAIN table}

\* Integer primary key: SQLite gives a new row the largest rowid plus one
NextId(table) ==
    IF table = << >> THEN 1
    ELSE 1 + CHOOSE m \in Ids(table) : \A k \in Ids(table) : k <= m

\* db.query(MaintenanceRequest).filter(MaintenanceRequest.id == req_id).first()
\* (variant: first() of the query without its filter)
LookupFirst(table, req_id) ==
    IF table = << >> THEN None ELSE Some(table[1])
Lookup(table, req_id) ==
    IF req_id \in Ids(table)
    THEN Some(table[CHOOSE i \in DOMAIN table : table[i].id = req_id])
    ELSE None

(***************************************************************************)
(* startup_event: the rows the seeding loop writes.  Each row draws its    *)
(* status, urgency, age in days and resolution time in hours at random;    *)
(* of the unit, the category and the description one draw is kept.  The    *)
(* seeded tenant has id 1 and the seeded worker id 2.                      *)
(***************************************************************************)
SeedStatuses == {"Pending", "In Progress", "Completed"}
SeedUrgencies == {"Low"}

SeedRow(id, st, urg, days, hours) ==
    LET created == 0 - HoursPerDay * days
    IN  Row(id, 1, "101", "Plumbing", urg, "Issue with sink in unit.", st,
            created,
            IF st = "Completed" THEN Some(created + hours) ELSE None,
            IF st # "Pending" THEN Some(2) ELSE None)

SeedRows ==
    {SeedRow(0, st, urg, d, IF st = "Completed" THEN h ELSE 1) :
        st \in SeedStatuses, urg \in SeedUrgencies,
        d \in 0..SeedDays, h \in 1..SeedHours}

SeedTables ==
    {[i \in 1..SeedRequests |-> [f[i] EXCEPT !.id = i]] :
        f \in [1..SeedRequests -> SeedRows]}

(***************************************************************************)
(* Handlers.  pc is the handler's position in update_request; orig is the  *)
(* row as the session loaded it and obj the in-memory object.  answer is   *)
(* the response sent last and seq counts the commits of update_request.    *)
(* Two history fields record what a session has missed since it loaded its *)
(* row: missed counts the commits other sessions made to that row (up to   *)
(* 2), and rival is the object the first of them committed, kept when that *)
(* session had loaded the same row value and had itself missed nothing.    *)
(***************************************************************************)
Idle ==
    [pc |-> "idle", user |-> None, status |-> "", orig |-> None, obj |-> None,
     missed |-> 0, rival |-> None]

\* a call is served by the first handler thread that is free
Free(h) == hs[h].pc = "idle" /\ \A g \in Handlers : g < h => hs[g].pc # "idle"

InFlight == Cardinality({h \in Handlers : hs[h].pc \in {"loaded", "dirty"}})

Init ==
    /\ clock = 0
    /\ seq = 0
    /\ answer = NoResponse
    /\ hs = [h \in Handlers |-> Idle]
    /\ users = ExistingUsers
    /\ requests \in SeedTables

\* datetime.utcnow() advances
Tick ==
    /\ clock < MaxClock
    /\ clock' = clock + 1
    /\ UNCHANGED <<users, requests, hs, answer, seq>>

(***************************************************************************)
(* POST /tenant/submit                                                     *)
(***************************************************************************)
Form(unit, cat, urg, descr) ==
    [unit_number |-> unit, category |-> cat, urgency |-> urg,
     description |-> descr]

\* the four fields are declared Form(...): required, and an empty value
\* counts as missing
\* (variant: only unit_number is required)
FormFilledLax(form) == form.unit_number # ""
FormFilled(form) ==
    /\ form.unit_number # ""
    /\ form.category # ""
    /\ form.urgency # ""
    /\ form.description # ""

\* MaintenanceRequest(tenant_id=user.id, ..., status="Pending"); created_at
\* takes its column default, datetime.utcnow, when the row is inserted
\* (variant: the caller is stored as the assigned worker too)
NewRequestAssigned(table, uid, form, now) ==
    Row(NextId(table), uid, form.unit_number, form.category, form.urgency,
        form.description, "Pending", now, None, Some(uid))
NewRequest(table, uid, form, now) ==
    Row(NextId(table), uid, form.unit_number, form.category, form.urgency,
        form.description, "Pending", now, None, None)

\* the handler on one call: the table it leaves and the response it returns
submit_result(table, now, sess, form) ==
    IF ~FormFilled(form)
    THEN [table |-> table, answer |-> Unprocessable("submit")]
    ELSE IF ~RoleAllows(get_current_user(sess), "tenant")
    THEN [table |-> table, answer |-> RedirectRoot("submit")]
    ELSE [table |-> Append(table, NewRequest(table, Get(sess), form, now)),
          answer |-> SubmitPage]

submit_request(h, sess, form) ==
    /\ Free(h)
    /\ Len(submit_result(requests, clock, sess, form).table) <= MaxRequests
    /\ requests' = submit_result(requests, clock, sess, form).table
    /\ answer' = submit_result(requests, clock, sess, form).answer
    /\ UNCHANGED <<users, clock, hs, seq>>

(***************************************************************************)
(* POST /worker/update/{req_id}                                            *)
(***************************************************************************)
\* req.status = status; req.assigned_worker_id = user.id;
\* if status == "Completed": req.resolved_at = datetime.utcnow()
\* (variant: the worker is not assigned)
SetFieldsUnassigned(row, st, uid, now) ==
    [row EXCEPT !.status = st,
                !.resolved_at = IF st = "Completed" THEN Some(now) ELSE @]
\* (variant: resolved_at is stamped a day early)
SetFieldsEarly(row, st, uid, now) ==
    [row EXCEPT !.status = st,
                !.assigned_worker_id = Some(uid),
                !.resolved_at = IF st = "Completed" THEN Some(now - HoursPerDay)
                                ELSE @]
\* (variant: created_at is stamped as well)
SetFieldsStamped(row, st, uid, now) ==
    [row EXCEPT !.status = st,
                !.assigned_worker_id = Some(uid),
                !.created_at = now,
                !.resolved_at = IF st = "Completed" THEN Some(now) ELSE @]
SetFields(row, st, uid, now) ==
    [row EXCEPT !.status = st,
                !.assigned_worker_id = Some(uid),
                !.resolved_at = IF st = "Completed" THEN Some(now) ELSE @]

\* db.commit(): the session flushes the object with an UPDATE of the columns
\* whose attribute no longer equals the loaded value; the other columns of
\* the stored row stay as they are in the database
Flush(stored, orig, obj) ==
    [c \in Columns |-> IF obj[c] # orig[c] THEN obj[c] ELSE stored[c]]

Commit(table, orig, obj) ==
    [i \in DOMAIN table |->
        IF table[i].id = obj.id THEN Flush(table[i], orig, obj) ELSE table[i]]

\* session s learns nothing of the commit of session c to the row it loaded
Missed(s, c) ==
    [s EXCEPT !.missed = IF @ < 2 THEN @ + 1 ELSE @,
              !.rival = IF s.missed = 0 /\ c.missed = 0 /\ c.orig = s.orig
                        THEN c.obj ELSE None]

\* the request arrives: form validation, the role guard, then the SELECT;
\* the response returned before any attribute is assigned, or Proceed
Proceed == [op |-> "update", code |-> 0, location |-> ""]

update_request_guard(table, sess, req_id, st) ==
    IF st = "" THEN Unprocessable("update")
    ELSE IF ~RoleAllows(get_current_user(sess), "worker")
    THEN RedirectRoot("update")
    ELSE IF Lookup(table, req_id) = None THEN RedirectQueue
    ELSE Proceed

update_request_begin(h, sess, req_id, st) ==
    /\ Free(h)
    /\ IF update_request_guard(requests, sess, req_id, st) = Proceed
       THEN /\ seq + InFlight < MaxCommits
            /\ hs' = [hs EXCEPT ![h] =
                    [Idle EXCEPT !.pc = "loaded", !.user = sess, !.status = st,
                                 !.orig = Lookup(requests, req_id),
                                 !.obj = Lookup(requests, req_id)]]
            /\ UNCHANGED answer
       ELSE /\ answer' = update_request_guard(requests, sess, req_id, st)
            /\ UNCHANGED hs
    /\ UNCHANGED <<users, requests, clock, seq>>

\* the three attribute assignments, on the session's object
update_request_set(h) ==
    /\ hs[h].pc = "loaded"
    /\ hs' = [hs EXCEPT ![h].pc = "dirty",
                        ![h].obj = Some(SetFields(Get(hs[h].obj), hs[h].status,
                                                  Get(hs[h].user), clock))]
    /\ UNCHANGED <<users, requests, clock, answer, seq>>

\* db.commit() and the redirect to the queue
update_request_commit(h) ==
    /\ hs[h].pc = "dirty"
    /\ requests' = Commit(requests, Get(hs[h].orig), Get(hs[h].obj))
    /\ seq' = seq + 1
    /\ answer' = RedirectQueue
    /\ hs' = [g \in Handlers |->
                IF g = h THEN Idle
                ELSE IF hs[g].pc # "idle" /\ Get(hs[g].obj).id = Get(hs[h].obj).id
                THEN Missed(hs[g], hs[h])
                ELSE hs[g]]
    /\ UNCHANGED <<users, clock>>

(***************************************************************************)
(* Inputs of the calls.                                                    *)
(***************************************************************************)
StatusInputs == {"", "Pending", "In Progress", "Completed", "Cancelled"}

ReqIdInputs == 1..(MaxRequests + 1)

FilledForm == Form("101", "Plumbing", "Emergency", "leak")

FewForms == {FilledForm, Form("101", "Plumbing", "Emergency", "")}

FormInputs ==
    {FilledForm,
     Form("", "Plumbing", "Emergency", "leak"),
     Form("101", "", "Emergency", "leak"),
     Form("101", "Plumbing", "", "leak"),
     Form("101", "Plumbing", "Emergency", ""),
     Form("101", "Gardening", "Emergency", "leak"),
     Form("101", "Plumbing", "Soon", "leak")}

\* the calls the handler threads H serve, with their inputs drawn from the
\* given sessions, forms and statuses
Calls(H, sessions, forms, statuses) ==
    \/ \E h \in H, sess \in sessions, form \in forms :
          submit_request(h, sess, form)
    \/ \E h \in H, sess \in sessions, req_id \in ReqIdInputs, st \in statuses :
          update_request_begin(h, sess, req_id, st)
    \/ \E h \in H : update_request_set(h)
    \/ \E h \in H : update_request_commit(h)

\* the program: the handler threads run concurrently; the callers are no
\* one, the seeded tenant and the two workers
Next ==
    \/ Tick
    \/ Calls(Handlers, {None, Some(1), Some(2), Some(4)}, FewForms,
             StatusInputs \ {""})

Spec == Init /\ [][Next]_vars

\* the program serving one call at a time, with every caller, form and status
NextSerial == Tick \/ Calls({1}, Sessions, FormInputs, StatusInputs)

SpecSerial == Init /\ [][NextSerial]_vars

(***************************************************************************)
(* Vocabulary of the properties.                                           *)
(***************************************************************************)
Statuses == {"Pending", "In Progress", "Completed"}

Categories == {"Plumbing", "Electrical", "HVAC", "General"}

Urgencies == {"Low", "Medium", "High", "Emergency"}

\* authorize(identity, requiredRole)
HasRole(sess, role) ==
    sess # None /\ Get(sess) \in DOMAIN users /\ users[Get(sess)] = role

HasEmptyField(form) ==
    \/ form.unit_number = ""
    \/ form.category = ""
    \/ form.urgency = ""
    \/ form.description = ""

Unrecognized(form) ==
    form.category \notin Categories \/ form.urgency \notin Urgencies

\* the fields an update may write
Mutable(row) == <<row.status, row.assigned_worker_id, row.resolved_at>>

StatusRank(st) ==
    CASE st = "Pending" -> 0 [] st = "In Progress" -> 1 [] OTHER -> 2

\* the update a session object o carries, run alone on row
Replay(row, o) ==
    [row EXCEPT !.status = o.status,
                !.assigned_worker_id = o.assigned_worker_id,
                !.resolved_at = IF o.status = "Completed" THEN o.resolved_at
                                ELSE @]

\* handler h commits in this step
Commits(h) == hs[h].pc = "dirty" /\ hs'[h].pc = "idle"

(***************************************************************************)
(* The read-only routes.  A page is the template's name and, as its body,  *)
(* the entries of the template context that are computed from the table.   *)
(***************************************************************************)
Page(op, template, body) ==
    [op |-> op, code |-> 200, location |-> template, body |-> body]

(***************************************************************************)
(* GET /worker/queue                                                       *)
(***************************************************************************)
\* .filter(MaintenanceRequest.status != "Completed")
\* (variant: the filter keeps Pending requests only)
IsPending(row) == row.status = "Pending"
IsOpen(row) == row.status # "Completed"

\* urgency_order.get(x.urgency, 4)
urgency_order(u) ==
    CASE u = "Emergency" -> 0
      [] u = "High" -> 1
      [] u = "Medium" -> 2
      [] u = "Low" -> 3
      [] OTHER -> 4

\* requests.sort(key=...): list.sort is stable, a row comes behind the rows
\* before it in the list whose key is not larger
\* (variant: a row comes before the rows of equal key)
InsertByUrgencyFront(sorted, row) ==
    LET k == Cardinality({i \in DOMAIN sorted :
                 urgency_order(sorted[i].urgency) < urgency_order(row.urgency)})
    IN  SubSeq(sorted, 1, k) \o <<row>> \o SubSeq(sorted, k + 1, Len(sorted))
InsertByUrgency(sorted, row) ==
    LET k == Cardinality({i \in DOMAIN sorted :
                 urgency_order(sorted[i].urgency) <= urgency_order(row.urgency)})
    IN  SubSeq(sorted, 1, k) \o <<row>> \o SubSeq(sorted, k + 1, Len(sorted))

RECURSIVE SortByUrgency(_)
SortByUrgency(rows) ==
    IF rows = << >> THEN << >>
    ELSE InsertByUrgency(SortByUrgency(SubSeq(rows, 1, Len(rows) - 1)),
                         rows[Len(rows)])

\* the query returns the rows in rowid order, the order of SQLite's table scan
work_queue_result(table, sess) ==
    IF ~RoleAllows(get_current_user(sess), "worker")
    THEN RedirectRoot("queue")
    ELSE Page("queue", "work_queue.html",
              SortByUrgency(SelectSeq(table, IsOpen)))

work_queue(h, sess) ==
    /\ Free(h)
    /\ answer' = work_queue_result(requests, sess)
    /\ UNCHANGED <<users, requests, clock, hs, seq>>

(***************************************************************************)
(* .order_by(MaintenanceRequest.created_at.desc()).  SQL leaves the order  *)
(* of rows of equal created_at open: the model takes the two extreme       *)
(* orders, by rowid and by rowid reversed.                                 *)
(***************************************************************************)
TieBreaks == {"rowid", "reverse"}

InsertByCreated(sorted, row, ties) ==
    LET newer == Cardinality({i \in DOMAIN sorted :
                     sorted[i].created_at > row.created_at})
        notOlder == Cardinality({i \in DOMAIN sorted :
                     sorted[i].created_at >= row.created_at})
        k == IF ties = "rowid" THEN notOlder ELSE newer
    IN  SubSeq(sorted, 1, k) \o <<row>> \o SubSeq(sorted, k + 1, Len(sorted))

RECURSIVE OrderByCreatedDesc(_, _)
OrderByCreatedDesc(rows, ties) ==
    IF rows = << >> THEN << >>
    ELSE InsertByCreated(OrderByCreatedDesc(SubSeq(rows, 1, Len(rows) - 1), ties),
                         rows[Len(rows)], ties)

\* .limit(n)
\* (variant: the query without its limit)
NoLimit(rows, n) == rows
Limit(rows, n) == SubSeq(rows, 1, IF Len(rows) < n THEN Len(rows) ELSE n)

(***************************************************************************)
(* GET /tenant/requests                                                    *)
(***************************************************************************)
\* .filter(MaintenanceRequest.tenant_id == user.id)
\* (variant: the query without its filter)
OwnedByAnyone(row, uid) == TRUE
OwnedBy(row, uid) == row.tenant_id = uid

my_requests_result(table, sess, ties) ==
    IF ~RoleAllows(get_current_user(sess), "tenant")
    THEN RedirectRoot("requests")
    ELSE LET Mine(row) == OwnedBy(row, Get(sess))
         IN  Page("requests", "my_requests.html",
                  OrderByCreatedDesc(SelectSeq(table, Mine), ties))

my_requests(h, sess) ==
    /\ Free(h)
    /\ \E ties \in TieBreaks :
          answer' = my_requests_result(requests, sess, ties)
    /\ UNCHANGED <<users, requests, clock, hs, seq>>

(***************************************************************************)
(* GET /manager/dashboard                                                  *)
(***************************************************************************)
IsCompleted(row) == row.status = "Completed"

\* r.urgency == "Emergency" and r.status != "Completed"
\* (variant: every Emergency request is counted)
IsEmergency(row) == row.urgency = "Emergency"
IsOpenEmergency(row) == row.urgency = "Emergency" /\ row.status # "Completed"

\* the loop over completed_requests: total_time, in hours (created_at is
\* never null)
RECURSIVE total_time(_)
total_time(rows) ==
    IF rows = << >> THEN 0
    ELSE total_time(Tail(rows))
         + IF Head(rows).resolved_at # None
           THEN Get(Head(rows).resolved_at) - Head(rows).created_at ELSE 0

HasResolved(row) == row.resolved_at # None

count_time(rows) == Len(SelectSeq(rows, HasResolved))

\* round(total / count, 1), in tenths of an hour.  Python rounds the float
\* to the nearest tenth; a quotient halfway between two tenths is a multiple
\* of a quarter when count < 20, which the float holds exactly, and goes to
\* the even tenth.
\* (variant: the quotient is cut off after its first decimal)
CutToTenth(total, count) == (10 * total) \div count
RoundToTenth(total, count) ==
    LET q == (10 * total) \div count
        r == (10 * total) % count
    IN  IF 2 * r < count THEN q
        ELSE IF 2 * r > count THEN q + 1
        ELSE IF q % 2 = 0 THEN q ELSE q + 1

avg_resolution_time(completed) ==
    IF count_time(completed) > 0
    THEN RoundToTenth(total_time(completed), count_time(completed))
    ELSE 0

\* both queries of the handler read the same table
dashboard_result(table, sess, ties) ==
    IF ~RoleAllows(get_current_user(sess), "manager")
    THEN RedirectRoot("dashboard")
    ELSE Page("dashboard", "dashboard.html",
              [open_requests |-> Len(SelectSeq(table, IsOpen)),
               completed_count |-> Len(SelectSeq(table, IsCompleted)),
               emergency_count |-> Len(SelectSeq(table, IsOpenEmergency)),
               avg_resolution_time |->
                   avg_resolution_time(SelectSeq(table, IsCompleted)),
               recent_requests |->
                   Limit(OrderByCreatedDesc(table, ties), RecentLimit)])

dashboard(h, sess) ==
    /\ Free(h)
    /\ \E ties \in TieBreaks :
          answer' = dashboard_result(requests, sess, ties)
    /\ UNCHANGED <<users, requests, clock, hs, seq>>

(***************************************************************************)
(* The views on their own: the read-only routes, served one call at a time *)
(* on tables the seeding loop can write: short tables with every status,   *)
(* urgency, age and resolution time; tables of Completed requests; long    *)
(* tables of Pending requests of two ages; and the table of five requests  *)
(* of urgency Low, Emergency, Medium, High, Emergency.  The empty table is *)
(* the database whose users were created without any request.  Between the *)
(* views the second tenant submits a request of an urgency of their own    *)
(* and the second worker sets the first request back to Pending.           *)
(***************************************************************************)
WithIds(rows) == [i \in DOMAIN rows |-> [rows[i] EXCEPT !.id = i]]

ViewRows ==
    {SeedRow(0, st, urg, d, IF st = "Completed" THEN h ELSE 1) :
        st \in SeedStatuses, urg \in Urgencies,
        d \in 0..ViewDays, h \in 1..ViewHours}

ShortTables ==
    UNION {{WithIds(f) : f \in [1..n -> ViewRows]} : n \in 0..ViewRequests}

CompletedTables ==
    {WithIds(f) : f \in [1..AvgRequests ->
        {SeedRow(0, "Completed", "Low", 0, h) : h \in 1..ViewHours}]}

LongTables ==
    {WithIds(f) : f \in [1..(RecentLimit + ExtraRows) ->
        {SeedRow(0, "Pending", "Low", d, 1) : d \in 0..ViewDays}]}

QueueExample ==
    WithIds([i \in 1..5 |->
        SeedRow(0, "Pending",
                <<"Low", "Emergency", "Medium", "High", "Emergency">>[i], 0, 1)])

ViewTables == ShortTables \cup CompletedTables \cup LongTables \cup {QueueExample}

InitViews ==
    /\ clock = 0
    /\ seq = 0
    /\ answer = NoResponse
    /\ hs = [h \in Handlers |-> Idle]
    /\ users = ExistingUsers
    /\ requests \in ViewTables

NextViews ==
    \/ \E sess \in Sessions : work_queue(1, sess)
    \/ \E sess \in Sessions : my_requests(1, sess)
    \/ \E sess \in Sessions : dashboard(1, sess)
    \/ submit_request(1, Some(5), Form("101", "Plumbing", "Soon", "leak"))
    \/ update_request_begin(1, Some(4), 1, "Pending")
    \/ update_request_set(1)
    \/ update_request_commit(1)

SpecViews == InitViews /\ [][NextViews]_vars

(***************************************************************************)
(* C1: in every reachable state, every request has resolved_at set if and  *)
(* only if its status is Completed.                                        *)
(***************************************************************************)
C1_ResolvedIffCompleted ==
    \A i \in DOMAIN requests :
        (requests[i].resolved_at # None) <=> (requests[i].status = "Completed")

(***************************************************************************)
(* C2: when two handlers update the same request concurrently (both load   *)
(* the same row value, then both commit), the row's status, worker and     *)
(* resolved_at after the second commit are those of running the two        *)
(* updates one after the other, in one of the two orders.                  *)
(***************************************************************************)
C2_ConcurrentUpdatesSerial ==
    [][\A h \in Handlers :
          (Commits(h) /\ hs[h].missed = 1 /\ hs[h].rival # None) =>
              LET base == Get(hs[h].orig)
                  a == Get(hs[h].rival)
                  b == Get(hs[h].obj)
                  final == Get(Lookup(requests', b.id))
              IN  Mutable(final) \in {Mutable(Replay(Replay(base, a), b)),
                                      Mutable(Replay(Replay(base, b), a))}]_vars

(***************************************************************************)
(* C3: Completed is terminal: once a request is Completed, no step changes *)
(* its status, assigned worker or resolved_at.                             *)
(***************************************************************************)
C3_CompletedIsTerminal ==
    [][\A i \in DOMAIN requests :
          requests[i].status = "Completed" =>
              Mutable(requests'[i]) = Mutable(requests[i])]_vars

(***************************************************************************)
(* C4: resolved_at is set once: once it is non-null, no step changes its   *)
(* value or resets it to null.                                             *)
(***************************************************************************)
C4_ResolvedAtSetOnce ==
    [][\A i \in DOMAIN requests :
          requests[i].resolved_at # None =>
              requests'[i].resolved_at = requests[i].resolved_at]_vars

(***************************************************************************)
(* C5: in every reachable state every request's status is one of Pending,  *)
(* In Progress, Completed.                                                 *)
(***************************************************************************)
C5_StatusInDomain ==
    \A i \in DOMAIN requests : requests[i].status \in Statuses

(***************************************************************************)
(* C6: a request's status never moves backwards in the order               *)
(* Pending < In Progress < Completed.                                      *)
(***************************************************************************)
C6_StatusNeverMovesBack ==
    [][\A i \in DOMAIN requests :
          (requests[i].status \in Statuses /\ requests'[i].status \in Statuses)
              => StatusRank(requests'[i].status) >= StatusRank(requests[i].status)]_vars

\* a step that changes the table is a submit's append or a handler's commit
\* to the one row it loaded
TableStep ==
    \/ requests' = requests
    \/ /\ Len(requests') = Len(requests) + 1
       /\ SubSeq(requests', 1, Len(requests)) = requests
       /\ answer' = SubmitPage
    \/ \E h \in Handlers :
          /\ Commits(h)
          /\ Get(hs[h].obj).id \in Ids(requests)
          /\ DOMAIN requests' = DOMAIN requests
          /\ \A i \in DOMAIN requests :
                requests[i].id # Get(hs[h].obj).id => requests'[i] = requests[i]

C8_MissingIdIsNoOp ==
    /\ [](\A sess \in Sessions, req_id \in ReqIdInputs,
            st \in StatusInputs \ {""} :
            (HasRole(sess, "worker") /\ req_id \notin Ids(requests)) =>
                update_request_guard(requests, sess, req_id, st) = RedirectQueue)
    /\ [][TableStep]_vars

\* the redirect to the queue has been sent though nothing was ever committed
C8_Witness ==
    /\ answer = RedirectQueue
    /\ seq = 0
    /\ requests # << >>
    /\ \A h \in Handlers : hs[h].pc = "idle"

\* C8 as stated: the answer is an error, not the answer of a success
C8_MissingIdNotFound ==
    [][\A h \in Handlers, sess \in Sessions, req_id \in ReqIdInputs,
          st \in StatusInputs \ {""} :
          (/\ update_request_begin(h, sess, req_id, st)
           /\ HasRole(sess, "worker")
           /\ req_id \notin Ids(requests))
              => /\ requests' = requests
                 /\ answer' # RedirectQueue
                 /\ answer'.code = 404]_vars

C11_WorkerSetUnlessPending ==
    \A i \in DOMAIN requests :
        /\ requests[i].status # "Pending" => requests[i].assigned_worker_id # None
        /\ requests[i].assigned_worker_id = None => requests[i].status = "Pending"

\* an update by the second worker has moved a request out of Pending
C11_Witness ==
    /\ seq > 0
    /\ \E i \in DOMAIN requests :
          /\ requests[i].status # "Pending"
          /\ requests[i].assigned_worker_id = Some(4)

(***************************************************************************)
(* C12: the clock never runs backwards, and in every reachable state every *)
(* request whose resolved_at is set has resolved_at >= created_at.         *)
(***************************************************************************)
C12_ResolvedNotBeforeCreated ==
    /\ [](\A i \in DOMAIN requests :
            requests[i].resolved_at # None =>
                Get(requests[i].resolved_at) >= requests[i].created_at)
    /\ [][clock' >= clock]_vars

\* an update has completed a request an hour after it was created
C12_Witness ==
    /\ seq > 0
    /\ \E i \in DOMAIN requests :
          /\ requests[i].status = "Completed"
          /\ requests[i].assigned_worker_id = Some(4)
          /\ requests[i].created_at = 0
          /\ requests[i].resolved_at = Some(1)

(***************************************************************************)
(* C13: in every reachable state the tenant_id of every request is the id  *)
(* of a user whose role is tenant, and the assigned_worker_id of every     *)
(* request, when set, is the id of a user whose role is worker.            *)
(***************************************************************************)
C13_ReferencesHaveRoles ==
    \A i \in DOMAIN requests :
        /\ HasRole(Some(requests[i].tenant_id), "tenant")
        /\ requests[i].assigned_worker_id # None =>
              HasRole(requests[i].assigned_worker_id, "worker")

\* a submitted request has been updated, after a worker's submit and a
\* tenant's update were turned away
C13_Witness ==
    /\ Len(requests) = MaxRequests
    /\ requests[MaxRequests].assigned_worker_id = Some(4)
    /\ requests[MaxRequests].tenant_id = 1
    /\ answer = RedirectRoot("submit")

(***************************************************************************)
(* C20: frame of the operations.  Every step keeps every request in the    *)
(* table, at its place, with its id, tenant_id, unit_number, category,     *)
(* urgency, description and created_at; a request changes only in the      *)
(* commit of a handler that loaded that request; the set of ids only       *)
(* grows.                                                                  *)
(***************************************************************************)
C20_Frame ==
    [][/\ Len(requests') >= Len(requests)
       /\ Ids(requests) \subseteq Ids(requests')
       /\ \A i \in DOMAIN requests :
             /\ \A c \in Columns \ {"status", "assigned_worker_id", "resolved_at"} :
                   requests'[i][c] = requests[i][c]
             /\ requests'[i] # requests[i] =>
                   \E h \in Handlers :
                       Commits(h) /\ Get(hs[h].obj).id = requests[i].id]_vars

\* an update has changed the first of two requests an hour after startup
C20_Witness ==
    /\ seq > 0
    /\ clock = 1
    /\ Len(requests) = 2
    /\ requests[1].status = "Completed"
    /\ requests[1].resolved_at = Some(1)
    /\ requests[2].status = "Pending"

(***************************************************************************)
(* Vocabulary of the properties of the views.                              *)
(***************************************************************************)
\* urgency rank of the queue
UrgencyRank(u) ==
    IF u = "Emergency" THEN 0
    ELSE IF u = "High" THEN 1
    ELSE IF u = "Medium" THEN 2
    ELSE IF u = "Low" THEN 3
    ELSE 4

\* the rows of a list, as a set
RowsOf(rows) == {rows[i] : i \in DOMAIN rows}

\* the place of a row in the table
PlaceOf(row) == CHOOSE i \in DOMAIN requests : requests[i] = row

Open == {i \in DOMAIN requests : requests[i].status # "Completed"}

\* the requests that count for the average resolution time
Resolved ==
    {i \in DOMAIN requests :
        requests[i].status = "Completed" /\ requests[i].resolved_at # None}

RECURSIVE HoursOf(_)
HoursOf(S) ==
    IF S = {} THEN 0
    ELSE LET i == CHOOSE j \in S : TRUE
         IN  Get(requests[i].resolved_at) - requests[i].created_at
             + HoursOf(S \ {i})

NewestFirst(rows) ==
    \A j, k \in DOMAIN rows : j < k => rows[j].created_at >= rows[k].created_at

Workers == {sess \in Sessions : HasRole(sess, "worker")}

Managers == {sess \in Sessions : HasRole(sess, "manager")}

(***************************************************************************)
(* C14: in every reachable state the worker's queue holds exactly the      *)
(* requests whose status is not Completed, each of them once.              *)
(***************************************************************************)
C14_QueueHoldsOpenRequests ==
    \A sess \in Workers :
        LET queue == work_queue_result(requests, sess).body
        IN  /\ RowsOf(queue) = {requests[i] : i \in Open}
            /\ Len(queue) = Cardinality(Open)

\* the queue of a table with a Completed request and a request that an
\* update has set back to Pending has been served
C14_Witness ==
    /\ answer = work_queue_result(requests, Some(2))
    /\ seq > 0
    /\ Len(answer.body) = 1
    /\ Len(requests) = 2
    /\ answer.body[1].resolved_at # None

C16_DashboardCounts ==
    \A sess \in Managers, ties \in TieBreaks :
        LET page == dashboard_result(requests, sess, ties).body
        IN  /\ page.open_requests = Cardinality(Open)
            /\ page.completed_count = Cardinality(DOMAIN requests \ Open)
            /\ page.emergency_count =
                  Cardinality({i \in Open : requests[i].urgency = "Emergency"})
            /\ requests = << >> =>
                  /\ page.open_requests = 0
                  /\ page.completed_count = 0
                  /\ page.emergency_count = 0
                  /\ page.avg_resolution_time = 0
                  /\ page.recent_requests = << >>

\* the dashboard of a table with a Completed and an open Emergency request
\* has been served
C16_Witness ==
    /\ answer = dashboard_result(requests, Some(3), "rowid")
    /\ Len(requests) = 2
    /\ \A i \in DOMAIN requests : requests[i].urgency = "Emergency"
    /\ answer.body.completed_count = 1
    /\ answer.body.emergency_count = 1

(***************************************************************************)
(* C17: the dashboard's average resolution time is the mean of             *)
(* resolved_at - created_at, in hours, over the requests that are          *)
(* Completed and have resolved_at set, rounded to one decimal (the value   *)
(* is within half a tenth of the mean), and 0 when there is no such        *)
(* request; a request that is not Completed does not count; resolution     *)
(* times of 1, 2 and 3 hours give 2.0.  The average is held in tenths.     *)
(***************************************************************************)
C17_AverageIsRoundedMean ==
    \A sess \in Managers, ties \in TieBreaks :
        LET avg == dashboard_result(requests, sess, ties).body.avg_resolution_time
            n == Cardinality(Resolved)
            d == avg * n - 10 * HoursOf(Resolved)
        IN  /\ n = 0 => avg = 0
            /\ n > 0 => 2 * d <= n /\ 2 * (0 - d) <= n
            /\ (n = 3 /\ Open = {}
                /\ {Get(requests[i].resolved_at) - requests[i].created_at :
                       i \in Resolved} = {1, 2, 3})
                  => avg = 20

\* the dashboard has been served on a table whose mean resolution time has
\* more than one decimal while a request with resolved_at set is Pending
C17_Witness ==
    /\ answer = dashboard_result(requests, Some(3), "rowid")
    /\ Cardinality(Resolved) = 2
    /\ HoursOf(Resolved) = 3
    /\ \E i \in Open : requests[i].resolved_at # None

\* C17 as stated: the average is the mean itself
C17_AverageIsMean ==
    \A sess \in Managers, ties \in TieBreaks :
        LET avg == dashboard_result(requests, sess, ties).body.avg_resolution_time
            n == Cardinality(Resolved)
        IN  /\ n = 0 => avg = 0
            /\ n > 0 => avg * n = 10 * HoursOf(Resolved)

(***************************************************************************)
(* C18: the page of a tenant's requests holds exactly the requests whose   *)
(* tenant_id is the calling tenant, each once, ordered by created_at       *)
(* descending; a caller that is no tenant is answered with the redirect to *)
(* "/" and gets no list.                                                   *)
(***************************************************************************)
C18_MyRequests ==
    \A sess \in Sessions, ties \in TieBreaks :
        LET page == my_requests_result(requests, sess, ties)
            own == {i \in DOMAIN requests : requests[i].tenant_id = Get(sess)}
        IN  IF HasRole(sess, "tenant")
            THEN /\ RowsOf(page.body) = {requests[i] : i \in own}
                 /\ Len(page.body) = Cardinality(own)
                 /\ NewestFirst(page.body)
            ELSE /\ page = RedirectRoot("requests")
                 /\ "body" \notin DOMAIN page

\* the first tenant's page has been served on a table that holds a request
\* of the second tenant, newer than the first tenant's
C18_Witness ==
    /\ \E ties \in TieBreaks : answer = my_requests_result(requests, Some(1), ties)
    /\ Len(requests) = 2
    /\ Len(answer.body) = 1
    /\ requests[2].tenant_id = 5
    /\ requests[2].created_at > requests[1].created_at

(***************************************************************************)
(* C19: the dashboard's recent list holds min(10, N) of the N requests of  *)
(* the table, each once, ordered by created_at descending, and no request  *)
(* outside the list was created later than a request in it.                *)
(***************************************************************************)
C19_RecentRequests ==
    \A sess \in Managers, ties \in TieBreaks :
        LET recent == dashboard_result(requests, sess, ties).body.recent_requests
        IN  /\ Len(recent) = IF Len(requests) < 10 THEN Len(requests) ELSE 10
            /\ RowsOf(recent) \subseteq RowsOf(requests)
            /\ Cardinality(RowsOf(recent)) = Len(recent)
            /\ NewestFirst(recent)
            /\ \A out \in RowsOf(requests) \ RowsOf(recent), in \in RowsOf(recent) :
                  out.created_at <= in.created_at

\* the dashboard has been served on a table of more than ten requests whose
\* oldest request is not the one of the lowest nor of the highest rowid
C19_Witness ==
    /\ \E ties \in TieBreaks : answer = dashboard_result(requests, Some(3), ties)
    /\ Len(requests) > 10
    /\ Len(answer.body.recent_requests) = 10
    /\ \E i \in DOMAIN requests :
          /\ 1 < i /\ i < Len(requests)
          /\ requests[i] \notin RowsOf(answer.body.recent_requests)
          /\ \A j \in DOMAIN requests \ {i} :
                requests[j].created_at > requests[i].created_at

====
